---- MODULE Spec2Model ----
(***************************************************************************)
(* Model of download_pixi_packages.py: load a pixi.lock file, extract the  *)
(* Conda package URLs, fetch each one into <output>/<subdir>/<filename>,   *)
(* and report the aggregate result through the process exit code.          *)
(*                                                                         *)
(* Strings are sequences of tokens: "/" "://" "?" "#" are the separator    *)
(* characters the code looks at, every other token is a run of ordinary    *)
(* characters.  A path segment is again a sequence of tokens, the empty    *)
(* sequence being the empty string.                                        *)
(***************************************************************************)
EXTENDS Integers, Sequences, FiniteSets, TLC

\* ------------------------------------------------------------------ bounds
MaxPkgs == 2        \* longest top-level 'packages' list that is enumerated

\* ------------------------------------------------- strings of the lockfile
UrlFooA  == <<"https", "://", "a.org", "/", "ch", "/", "linux-64", "/", "foo.conda">>
UrlFooB  == <<"https", "://", "b.org", "/", "ch", "/", "linux-64", "/", "foo.conda">>
UrlBar   == <<"http", "://", "a.org", "/", "ch", "/", "noarch", "/", "bar.conda">>
UrlShort == <<"https", "://", "a.org", "/", "foo.conda">>
UrlSlash == <<"https", "://", "a.org", "/", "ch", "/", "linux-64", "/">>
StrFtp   == <<"ftp", "://", "a.org", "/", "ch", "/", "osx-64", "/", "baz.conda">>

HttpStrings == {UrlFooA, UrlFooB, UrlBar, UrlShort, UrlSlash}
Strings == HttpStrings \cup {StrFtp}

\* An entry of a package list.  kind: "nondict" (not a mapping), "noconda"
\* (mapping without 'conda'), "nonstr" ('conda' is not a string), "str".
Entry(k, v) == [kind |-> k, val |-> v]
\* The package lists that are enumerated: the selections of at most n
\* entries of AllEntries, in their order (one URL is listed twice).
AllEntries ==
    << Entry("nondict", <<>>), Entry("str", UrlFooA), Entry("noconda", <<>>),
       Entry("str", UrlFooB), Entry("nonstr", <<>>), Entry("str", UrlBar),
       Entry("str", StrFtp), Entry("str", UrlShort), Entry("str", UrlSlash),
       Entry("str", UrlFooA) >>

Selections(n) ==
    UNION { { [i \in 1..k |-> AllEntries[f[i]]] :
                f \in {g \in [1..k -> 1..Len(AllEntries)] :
                         \A i \in 1..k, j \in 1..k : i < j => g[i] < g[j]} } :
            k \in 0..n }

\* value of data["packages"]
PackagesChoices ==
    {[kind |-> "absent", list |-> <<>>], [kind |-> "nonlist", list |-> <<>>]}
      \cup {[kind |-> "list", list |-> l] : l \in Selections(MaxPkgs)}

Platform(k, es) == [kind |-> k, entries |-> es]
Env(k, ps) == [kind |-> k, platforms |-> ps]

\* value of data["environments"]
EnvironmentsChoices ==
    { [kind |-> "absent", envs |-> <<>>],
      [kind |-> "nondict", envs |-> <<>>],
      [kind |-> "dict",
       envs |-> << Env("nondict", <<>>),
                   Env("nopackages", <<>>),
                   Env("packages_nondict", <<>>),
                   Env("dict", << Platform("nonlist", <<>>),
                                  Platform("list", << Entry("nondict", <<>>),
                                                      Entry("str", StrFtp),
                                                      Entry("str", UrlFooB) >>) >>),
                   Env("dict", << Platform("list", << Entry("str", UrlBar),
                                                      Entry("str", UrlFooB) >>) >>) >>] }

LockfileKinds == {"missing", "notfile", "badsyntax", "unreadable", "nonmapping", "mapping"}

Lockfiles ==
    {[kind |-> k, packages |-> [kind |-> "absent", list |-> <<>>],
      environments |-> [kind |-> "absent", envs |-> <<>>]] : k \in LockfileKinds \ {"mapping"}}
      \cup {[kind |-> "mapping", packages |-> p, environments |-> e] :
              p \in PackagesChoices, e \in EnvironmentsChoices}

\* ------------------------------------------------------------- load_lockfile
LoadOk_NonMapping(kind) == kind \in {"mapping", "nonmapping"}

\* load_lockfile returns the data only for an existing regular file that
\* parses to a dict; every other case is sys.exit(1)
LoadOk(kind) == kind = "mapping"

\* ------------------------------------------------ extract_conda_package_urls
\* isinstance(url, str) and url.startswith("http")
IsHttpString(e) == e.kind = "str" /\ Len(e.val) > 0 /\ e.val[1] \in {"http", "https"}

\* isinstance(package_info, dict) and "conda" in package_info
HasConda(e) == e.kind \in {"nonstr", "str"}

WarnsOn_All(e) == ~IsHttpString(e)

\* the warning of lines 86-90: only for a mapping with a 'conda' key
WarnsOn(e) == HasConda(e) /\ ~IsHttpString(e)

RECURSIVE UrlsOfEntries(_)
UrlsOfEntries(es) ==
    IF es = <<>> THEN {}
    ELSE (IF HasConda(Head(es)) /\ IsHttpString(Head(es)) THEN {Head(es).val} ELSE {})
           \cup UrlsOfEntries(Tail(es))

PrimaryUrls(data) ==
    IF data.packages.kind = "list" THEN UrlsOfEntries(data.packages.list) ELSE {}

RECURSIVE UrlsOfPlatforms(_)
UrlsOfPlatforms(ps) ==
    IF ps = <<>> THEN {}
    ELSE (IF Head(ps).kind = "list" THEN UrlsOfEntries(Head(ps).entries) ELSE {})
           \cup UrlsOfPlatforms(Tail(ps))

RECURSIVE UrlsOfEnvs(_)
UrlsOfEnvs(envs) ==
    IF envs = <<>> THEN {}
    ELSE (IF Head(envs).kind = "dict" THEN UrlsOfPlatforms(Head(envs).platforms) ELSE {})
           \cup UrlsOfEnvs(Tail(envs))

FallbackUrls(data) == UrlsOfEnvs(data.environments.envs)

NeedsFallback_Always(urls, data) == data.environments.kind = "dict"

\* the condition of lines 96-100
NeedsFallback(urls, data) == urls = {} /\ data.environments.kind = "dict"

ExtractUrls(data) ==
    LET urls == PrimaryUrls(data)
    IN  IF NeedsFallback(urls, data) THEN urls \cup FallbackUrls(data) ELSE urls

Warned(data) ==
    IF data.packages.kind = "list"
    THEN {i \in 1..Len(data.packages.list) : WarnsOn(data.packages.list[i])}
    ELSE {}

\* ------------------------------------------------------ destination of a URL
RECURSIVE TakeUntilStop(_)
TakeUntilStop(s) ==
    IF s = <<>> \/ Head(s) \in {"?", "#"} THEN <<>>
    ELSE <<Head(s)>> \o TakeUntilStop(Tail(s))

\* urllib.parse.urlparse(url).path: what follows scheme://netloc, up to ? or #
UrlPath(url) ==
    IF Len(url) >= 3 /\ url[2] = "://"
    THEN TakeUntilStop(SubSeq(url, 4, Len(url)))
    ELSE TakeUntilStop(url)

\* path.split("/"): cur is the piece being read, acc the pieces already cut
RECURSIVE SplitFrom(_, _, _)
SplitFrom(s, cur, acc) ==
    IF s = <<>> THEN Append(acc, cur)
    ELSE IF Head(s) = "/" THEN SplitFrom(Tail(s), <<>>, Append(acc, cur))
    ELSE SplitFrom(Tail(s), Append(cur, Head(s)), acc)

SplitSlash(s) == SplitFrom(s, <<>>, <<>>)

\* os.path.basename(path): what follows the last "/"
Basename(path) == LET parts == SplitSlash(path) IN parts[Len(parts)]

\* [comp for comp in path.split("/") if comp]
PathComponents(path) == SelectSeq(SplitSlash(path), LAMBDA c : c # <<>>)

Derivable(url) == Basename(UrlPath(url)) # <<>> /\ Len(PathComponents(UrlPath(url))) >= 2

PlatformSubdir(url) ==
    LET comps == PathComponents(UrlPath(url)) IN comps[Len(comps) - 1]

OutputPath_FilenameOnly(url) == << <<>>, Basename(UrlPath(url)) >>

\* os.path.join(base_output_dir, platform_subdir_name, filename), relative
\* to the base output directory
OutputPath(url) == << PlatformSubdir(url), Basename(UrlPath(url)) >>

\* lines 133-157 for every URL of the model: the filename, the number of
\* path components, and (when both can be derived) the destination
UrlInfo ==
    [u \in HttpStrings |->
        [filename |-> Basename(UrlPath(u)),
         ncomps   |-> Len(PathComponents(UrlPath(u))),
         subdir   |-> IF Derivable(u) THEN PlatformSubdir(u) ELSE <<>>,
         path     |-> IF Derivable(u) THEN OutputPath(u) ELSE <<>>]]

AllPaths == {UrlInfo[u].path : u \in {v \in HttpStrings : Derivable(v)}}
AllSubdirs == {p[1] : p \in AllPaths}


\* ------------------------------------------------------------------- state
VARIABLES
    lockfile,       \* the file at args.lockfile (never written by the program)
    outDir,         \* args.output_dir: "absent", "dir" or "notdir"
    writable,       \* os.access(args.output_dir, os.W_OK)
    dirs,           \* platform subdirectories under the output directory
    files,          \* AllPaths -> "absent" | "complete" | "partial"
    prev,           \* exit code (-1 if none), --force and progress of the
                    \* previous invocation
    pc,             \* position of main: "setup" "load" "extract" "loop" "exited"
    force,          \* args.force
    loaded,         \* load_lockfile returned
    extracted,      \* extract_conda_package_urls returned
    conda_urls,     \* the extracted URLs (a Python set turned into a list)
    remaining,      \* URLs the for loop has not reached yet
    success_count,
    failure_count,
    exit_code,      \* -1 while the process runs
    calls,          \* number of download_package calls per URL in this run
    outcome,        \* per URL, which message download_package ended with
    requested,      \* URLs for which requests.get was issued in this run
    warned,         \* indices of primary entries the warning was printed for
    fallbackTried,  \* the Info line of the environments traversal was printed
    last            \* the most recent download_package call: its output_path,
                    \* its return value and what it did on the way

vars == <<lockfile, outDir, writable, dirs, files, prev, pc, force, loaded,
          extracted, conda_urls, remaining, success_count, failure_count,
          exit_code, calls, outcome, requested, warned, fallbackTried, last>>

fsVars == <<outDir, dirs, files>>
procVars == <<loaded, extracted, conda_urls, remaining, success_count, failure_count,
              calls, outcome, requested, warned, fallbackTried, last>>

NoCall == [ret |-> FALSE, path |-> <<>>, existed |-> FALSE, requested |-> FALSE,
           created |-> FALSE, rm_failed |-> FALSE]

FileStates == {"absent", "complete", "partial"}

\* what the operating system and the network can answer
MkOutcomes  == {"ok", "oserror"}
NetOutcomes == {"ok", "error_before_write", "error_during_write"}
RmOutcomes  == {"ok", "oserror"}

\* --------------------------------------------------------- download_package
ShouldSkip_IgnoreForce(force_download, exists) == exists

ShouldSkip_Never(force_download, exists) == FALSE

\* line 174: not force_download and os.path.exists(output_path)
ShouldSkip(force_download, exists) == ~force_download /\ exists

CleanupRemoves_Never(output_path_set, state) == FALSE

\* line 209: output_path and os.path.exists(output_path) and isfile
CleanupRemoves(output_path_set, state) == output_path_set /\ state # "absent"

\* The whole call: d and f are the directories and files before it, mk, net
\* and rm what makedirs, the request/write and os.remove answer if reached.
DownloadPackage(url, force_download, d, f, mk, net, rm) ==
    LET info == UrlInfo[url]
        base == [ret |-> FALSE, dirs |-> d, files |-> f, requested |-> FALSE,
                 outcome |-> "", path |-> <<>>, existed |-> FALSE,
                 created |-> FALSE, rm_failed |-> FALSE]
    IN
    IF info.filename = <<>> THEN [base EXCEPT !.outcome = "no_filename"]
    ELSE IF info.ncomps < 2 THEN [base EXCEPT !.outcome = "no_subdir"]
    ELSE IF info.subdir \notin d /\ mk = "oserror"
         THEN [base EXCEPT !.outcome = "mkdir_error"]
    ELSE
    LET d2 == d \cup {info.subdir}
        op == info.path
        ex == f[op] # "absent"
        b2 == [base EXCEPT !.dirs = d2, !.path = op, !.existed = ex]
    IN
    IF ShouldSkip(force_download, ex)
    THEN [b2 EXCEPT !.ret = TRUE, !.outcome = "skipped"]
    ELSE IF net = "ok"
    THEN [b2 EXCEPT !.ret = TRUE, !.outcome = "downloaded", !.requested = TRUE,
                    !.created = TRUE, !.files = [f EXCEPT ![op] = "complete"]]
    ELSE
    LET wrote  == net = "error_during_write"
        f2     == IF wrote THEN [f EXCEPT ![op] = "partial"] ELSE f
        remove == CleanupRemoves(TRUE, f2[op])
        f3     == IF remove /\ rm = "ok" THEN [f2 EXCEPT ![op] = "absent"] ELSE f2
    IN  [b2 EXCEPT !.outcome = IF wrote THEN "write_failed" ELSE "request_failed",
                   !.requested = TRUE, !.created = wrote,
                   !.rm_failed = remove /\ rm = "oserror", !.files = f3]

\* --------------------------------------------------------------------- main
ExitCode_Zero(failures) == 0

\* lines 302-309
ExitCode(failures) == IF failures > 0 THEN 1 ELSE 0

CountFailure_Never(count, ok) == count

\* lines 285-292, the failure branch
CountFailure(count, ok) == IF ok THEN count ELSE count + 1

CountSuccess(count, ok) == IF ok THEN count + 1 ELSE count

TypeOK ==
    /\ lockfile.kind \in LockfileKinds
    /\ outDir \in {"absent", "dir", "notdir"}
    /\ writable \in BOOLEAN
    /\ dirs \subseteq AllSubdirs
    /\ files \in [AllPaths -> FileStates]
    /\ pc \in {"setup", "load", "extract", "loop", "exited"}
    /\ force \in BOOLEAN
    /\ exit_code \in {-1, 0, 1}
    /\ conda_urls \subseteq HttpStrings
    /\ remaining \subseteq conda_urls

FreshProcess ==
    /\ pc = "setup"
    /\ loaded = FALSE
    /\ extracted = FALSE
    /\ conda_urls = {}
    /\ remaining = {}
    /\ success_count = 0
    /\ failure_count = 0
    /\ exit_code = -1
    /\ calls = [u \in HttpStrings |-> 0]
    /\ outcome = [u \in HttpStrings |-> "none"]
    /\ requested = {}
    /\ warned = {}
    /\ fallbackTried = FALSE
    /\ last = NoCall

Init ==
    /\ lockfile \in Lockfiles
    /\ outDir \in {"absent", "dir", "notdir"}
    /\ writable \in BOOLEAN
    /\ files \in [AllPaths -> {"absent", "complete"}]
    /\ outDir # "dir" => \A p \in AllPaths : files[p] = "absent"
    /\ dirs = {p[1] : p \in {q \in AllPaths : files[q] # "absent"}}
    /\ prev = [exit_code |-> -1, force |-> FALSE, loaded |-> FALSE]
    /\ force \in BOOLEAN
    /\ FreshProcess

Exit(code) ==
    /\ pc' = "exited"
    /\ exit_code' = code

\* main, lines 229-254: make sure the base output directory is usable
Setup ==
    /\ pc = "setup"
    /\ \E mk \in MkOutcomes :
         IF outDir = "absent" /\ mk = "oserror" THEN
             Exit(1) /\ UNCHANGED outDir
         ELSE IF outDir = "notdir" THEN
             Exit(1) /\ UNCHANGED outDir
         ELSE
             /\ outDir' = "dir"
             /\ IF ~writable THEN Exit(1)
                ELSE pc' = "load" /\ UNCHANGED exit_code
    /\ UNCHANGED <<lockfile, writable, dirs, files, prev, force, procVars>>

\* main, lines 256-257, with load_lockfile
Load ==
    /\ pc = "load"
    /\ IF LoadOk(lockfile.kind)
       THEN loaded' = TRUE /\ pc' = "extract" /\ UNCHANGED exit_code
       ELSE Exit(1) /\ UNCHANGED loaded
    /\ UNCHANGED <<lockfile, fsVars, writable, prev, force, extracted, conda_urls,
                   remaining, success_count, failure_count, calls, outcome,
                   requested, warned, fallbackTried, last>>

\* main, lines 259-270, with extract_conda_package_urls
Extract ==
    /\ pc = "extract"
    /\ conda_urls' = ExtractUrls(lockfile)
    /\ warned' = Warned(lockfile)
    /\ fallbackTried' = NeedsFallback(PrimaryUrls(lockfile), lockfile)
    /\ extracted' = TRUE
    /\ remaining' = conda_urls'
    /\ IF conda_urls' = {} THEN Exit(0) ELSE pc' = "loop" /\ UNCHANGED exit_code
    /\ UNCHANGED <<lockfile, fsVars, writable, prev, force, loaded, success_count,
                   failure_count, calls, outcome, requested, last>>

\* one iteration of the for loop, lines 272-292; list(urls) of a set has no
\* fixed order, so the next URL is any that is left
Fetch ==
    /\ pc = "loop"
    /\ remaining # {}
    /\ \E url \in remaining :
       \E r \in {DownloadPackage(url, force, dirs, files, mk, net, rm) :
                   mk \in MkOutcomes, net \in NetOutcomes, rm \in RmOutcomes} :
         /\ dirs' = r.dirs
         /\ files' = r.files
         /\ calls' = [calls EXCEPT ![url] = @ + 1]
         /\ outcome' = [outcome EXCEPT ![url] = r.outcome]
         /\ requested' = IF r.requested THEN requested \cup {url} ELSE requested
         /\ success_count' = CountSuccess(success_count, r.ret)
         /\ failure_count' = CountFailure(failure_count, r.ret)
         /\ last' = [ret |-> r.ret, path |-> r.path, existed |-> r.existed,
                     requested |-> r.requested, created |-> r.created,
                     rm_failed |-> r.rm_failed]
         /\ remaining' = remaining \ {url}
    /\ UNCHANGED <<lockfile, outDir, writable, prev, pc, force, loaded, extracted,
                   conda_urls, exit_code, warned, fallbackTried>>

\* main, lines 295-309: the summary and the exit status
Summary ==
    /\ pc = "loop"
    /\ remaining = {}
    /\ Exit(ExitCode(failure_count))
    /\ UNCHANGED <<lockfile, fsVars, writable, prev, force, procVars>>

\* the program is started again on the same lockfile and output directory
Rerun ==
    /\ pc = "exited"
    /\ prev' = [exit_code |-> exit_code, force |-> force, loaded |-> loaded]
    /\ force' \in BOOLEAN
    /\ pc' = "setup"
    /\ loaded' = FALSE
    /\ extracted' = FALSE
    /\ conda_urls' = {}
    /\ remaining' = {}
    /\ success_count' = 0
    /\ failure_count' = 0
    /\ exit_code' = -1
    /\ calls' = [u \in HttpStrings |-> 0]
    /\ outcome' = [u \in HttpStrings |-> "none"]
    /\ requested' = {}
    /\ warned' = {}
    /\ fallbackTried' = FALSE
    /\ last' = NoCall
    /\ UNCHANGED <<lockfile, fsVars, writable>>

\* one invocation of the program
Next == Setup \/ Load \/ Extract \/ Fetch \/ Summary

Spec == Init /\ [][Next]_vars

\* any number of invocations, one after the other
NextRerun == Setup \/ Load \/ Extract \/ Fetch \/ Summary \/ Rerun

SpecRerun == Init /\ [][NextRerun]_vars

\* ------------------------------------------------------------ the claims
SuccessOutcomes == {"downloaded", "skipped"}
FailureOutcomes == {"no_filename", "no_subdir", "mkdir_error", "request_failed", "write_failed"}

PrimaryList == IF lockfile.packages.kind = "list" THEN lockfile.packages.list ELSE <<>>

\* the entry has a string, http-prefixed 'conda' field
ValidEntry(e) == e.kind = "str" /\ e.val[1] \in {"http", "https"}

BadLockfile == lockfile.kind \in {"badsyntax", "nonmapping"}

\* the last two non-empty segments of the URL's path
LastTwo(url) ==
    LET comps == PathComponents(UrlPath(url))
    IN  << comps[Len(comps) - 1], comps[Len(comps)] >>

Existing(f) == {p \in AllPaths : f[p] # "absent"}

\* C1: a run that got past setup and loaded the lockfile exits 0 exactly when
\* every extracted URL was downloaded or skipped as present (also when there
\* is no URL at all), and exits 1 as soon as one fetch returned failure.
C1_ExitCode ==
    (pc = "exited" /\ loaded) =>
        /\ exit_code = 0 <=> \A u \in conda_urls : outcome[u] \in SuccessOutcomes
        /\ (\E u \in conda_urls : outcome[u] \in FailureOutcomes) => exit_code = 1

C1_Witness ==
    /\ pc = "exited" /\ loaded /\ exit_code = 1
    /\ \E u \in conda_urls : outcome[u] \in SuccessOutcomes
    /\ \E u \in conda_urls : outcome[u] \in FailureOutcomes

\* C2: download_package is called at most once per URL and only for extracted
\* URLs; when the summary has been reached it was called exactly once for
\* each of them, whatever the earlier calls returned, and success_count +
\* failure_count is the number of extracted URLs.
C2_FailOpen ==
    /\ \A u \in HttpStrings : calls[u] <= 1 /\ (calls[u] = 1 => u \in conda_urls)
    /\ (pc = "exited" /\ extracted) =>
          /\ \A u \in conda_urls : calls[u] = 1
          /\ success_count + failure_count = Cardinality(conda_urls)

C2_Witness ==
    /\ pc = "exited" /\ extracted
    /\ failure_count > 0
    /\ last.ret
    /\ \A u \in conda_urls : calls[u] = 1

\* C3 as stated: after the run no file exists at the destination of a URL
\* whose fetch failed after creating the file.
C3_Original ==
    pc = "exited" =>
        \A u \in conda_urls :
            outcome[u] = "write_failed" => files[UrlInfo[u].path] = "absent"

\* C3 amended: a failed call that created its destination file has removed it
\* when it returns, unless os.remove itself failed; then the truncated file
\* is still there.
C3_Cleanup ==
    (last.created /\ ~last.ret) =>
        /\ ~last.rm_failed => files[last.path] = "absent"
        /\ last.rm_failed => files[last.path] = "partial"

C3_Witness ==
    /\ last.created /\ ~last.ret /\ ~last.rm_failed
    /\ files[last.path] = "absent"

\* C4 as stated: a run with --force unset that follows a run with --force
\* unset issues no request and ends in full success (both runs having got
\* past setup and loaded the lockfile).
C4_Original ==
    (prev.loaded /\ ~prev.force /\ ~force /\ loaded) =>
        /\ requested = {}
        /\ pc = "exited" => (exit_code = 0 /\ success_count = Cardinality(conda_urls))

\* C4 amended: a run with --force unset that follows a run with --force unset
\* which exited 0 issues no request and ends with exit code 0, every URL
\* counted as a success.
C4_Idempotent ==
    (prev.exit_code = 0 /\ ~prev.force /\ ~force) =>
        /\ requested = {}
        /\ pc = "exited" => (exit_code = 0 /\ success_count = Cardinality(conda_urls))

C4_Witness ==
    /\ prev.exit_code = 0 /\ ~prev.force /\ ~force
    /\ pc = "exited" /\ exit_code = 0
    /\ conda_urls # {}
    /\ \A u \in conda_urls : outcome[u] = "skipped"
    /\ requested = {}

\* C5 as stated: with --force, every extracted URL has been requested when
\* the loop is over.
C5_Original ==
    (force /\ pc = "exited" /\ extracted) => conda_urls \subseteq requested

\* C5 amended: with --force, every processed URL whose filename and platform
\* subdirectory can be derived and whose platform directory exists or could
\* be created has been requested, whether or not its file was there.
C5_Forced ==
    force =>
        \A u \in conda_urls :
            (calls[u] = 1 /\ Derivable(u) /\ outcome[u] # "mkdir_error") => u \in requested

C5_Witness ==
    /\ force /\ last.existed /\ last.requested
    /\ \E u \in requested : UrlInfo[u].path = last.path

\* C6 as stated: with a lockfile that is not a mapping or not valid YAML the
\* run creates no file and no directory at all.
C6_Original ==
    [][BadLockfile => UNCHANGED <<outDir, dirs, files>>]_vars

\* C6 amended: with such a lockfile the run issues no request, exits 1, and
\* creates nothing inside the output directory; the output directory itself
\* may be created by the setup that precedes the load.
C6_BadLockfile ==
    [][BadLockfile =>
          /\ UNCHANGED <<dirs, files>>
          /\ requested' = {}
          /\ pc' = "exited" => exit_code' = 1]_vars

C6_Witness ==
    /\ BadLockfile /\ outDir = "dir" /\ writable
    /\ pc = "exited" /\ exit_code = 1 /\ ~loaded

C8_Fallback ==
    extracted =>
        /\ fallbackTried => PrimaryUrls(lockfile) = {}
        /\ PrimaryUrls(lockfile) # {} => conda_urls = PrimaryUrls(lockfile)

C8_Witness ==
    /\ extracted /\ ~fallbackTried
    /\ PrimaryUrls(lockfile) # {}
    /\ FallbackUrls(lockfile) \ PrimaryUrls(lockfile) # {}
    /\ conda_urls = PrimaryUrls(lockfile)

\* C9 as stated: two distinct extracted URLs never have the same destination.
C9_Original ==
    extracted =>
        \A u, v \in conda_urls :
            (u # v /\ Derivable(u) /\ Derivable(v)) => UrlInfo[u].path # UrlInfo[v].path

\* C9 amended: the destination of a URL is <second-to-last segment>/<last
\* segment> of its path, so two URLs collide exactly when they agree on these
\* two segments; a call only changes the file at its own destination, inside
\* an existing platform directory.
C9_Destinations ==
    [][/\ \A u \in conda_urls' : Derivable(u) => UrlInfo[u].path = LastTwo(u)
       /\ \A u, v \in conda_urls' :
             (Derivable(u) /\ Derivable(v)) =>
                 (UrlInfo[u].path = UrlInfo[v].path <=> LastTwo(u) = LastTwo(v))
       /\ \A p \in AllPaths :
             files'[p] # files[p] =>
                 (pc = "loop" /\ p = last'.path /\ p[1] \in dirs')]_vars

C9_Witness ==
    /\ pc = "exited"
    /\ \E u, v \in conda_urls :
          /\ u # v /\ UrlInfo[u].path = UrlInfo[v].path
          /\ outcome[u] = "downloaded" /\ outcome[v] = "skipped"

\* C10: a call of download_package that returns failure leaves the files of
\* the output tree as they were; in particular every file that existed before
\* the call still exists after it.
C10_Original ==
    [][failure_count' = failure_count + 1 => Existing(files) \subseteq Existing(files')]_vars

====
